---- MODULE Spec2Model ----
(***************************************************************************)
(* hyperlink: the link checker's driver (src/main.rs, fn main) and its     *)
(* link collectors (src/collector.rs).                                     *)
(*                                                                         *)
(* Spec      the run of main over one file tree: parallel fold of the      *)
(*           tree's entries into per-worker chunks, sequential reduction,  *)
(*           paragraph index, classification/attribution, report, exit.    *)
(* SpecColl  the BrokenLinkCollector algebra: collectors built from new()  *)
(*           by ingest and merged in any order and tree shape.             *)
(*                                                                         *)
(* The run is modelled with github_actions = false (the annotation lines   *)
(* repeat the grouped entries and are outside the grouping contract).      *)
(***************************************************************************)
EXTENDS Integers, Sequences, FiniteSets, TLC

(***************************************************************************)
(* Bounds                                                                  *)
(***************************************************************************)
\* number of partial results the parallel fold yields
NumWorkers == 2
\* Link events the parser yields over the whole scanned tree
MaxLinks == 2

\* SpecColl: Link events ingested, and collectors built from new()
MaxEvents == 3
NumCollectors == 3

\* paths of the scanned tree; the file at path p has Href <<p, 0>>
Paths == {1, 2}
\* paths of the source tree
SourcePaths == {1, 2}
\* paragraph fingerprints
Fingerprints == {1}
\* Hrefs as <<path, anchor>>, anchor 0 standing for no anchor
HrefUniverse == {<<1, 0>>, <<1, 1>>, <<2, 0>>}

(***************************************************************************)
(* Exit codes                                                              *)
(***************************************************************************)
ExitOk == 0
ExitBadLinks == 1
ExitBadAnchors == 2
\* a main that returns Err(..) ends the process with the failure status
ExitError == 1

(***************************************************************************)
(* Link endpoint model (crate::html)                                       *)
(***************************************************************************)
\* Option<T> as a sequence of length at most one
None == <<>>
Some(x) == <<x>>

\* Href order: path, then anchor
HrefLess(a, b) == a[1] < b[1] \/ (a[1] = b[1] /\ a[2] < b[2])

without_anchor(h) == <<h[1], 0>>

\* Document::new: the Href of the file at path p
HrefOfPath(p) == <<p, 0>>

Uses(h, p, para) == [kind |-> "Uses", href |-> h, path |-> p, paragraph |-> para]
Defines(h) == [kind |-> "Defines", href |-> h, paragraph |-> None]

\* the UsedLink / DefinedLink a Link carries
UsedLinkOf(link) == [href |-> link.href, path |-> link.path, paragraph |-> link.paragraph]

(***************************************************************************)
(* Generic helpers                                                         *)
(***************************************************************************)
RECURSIVE SeqsUpTo(_, _)
SeqsUpTo(S, n) ==
    IF n = 0 THEN {<<>>}
    ELSE LET shorter == SeqsUpTo(S, n - 1)
         IN shorter \cup {Append(s, x) : s \in {t \in shorter : Len(t) = n - 1}, x \in S}

Range(s) == {s[i] : i \in DOMAIN s}

RECURSIVE SumOver(_, _)
SumOver(S, f) ==
    IF S = {} THEN 0
    ELSE LET x == CHOOSE y \in S : TRUE IN f[x] + SumOver(S \ {x}, f)

\* the keys of a BTreeMap / the elements of a BTreeSet in iteration order
RECURSIVE SortedHrefs(_)
SortedHrefs(S) ==
    IF S = {} THEN <<>>
    ELSE LET m == CHOOSE x \in S : \A y \in S \ {x} : HrefLess(x, y)
         IN <<m>> \o SortedHrefs(S \ {m})

\* an order of the keys that compares the path before the bool
KeyLess_PathFirst(a, b) == a[2] < b[2] \/ (a[2] = b[2] /\ a[1] = FALSE /\ b[1] = TRUE)

\* order of the grouped entries' keys: (bool, path), false before true
KeyLess(a, b) == (a[1] = FALSE /\ b[1] = TRUE) \/ (a[1] = b[1] /\ a[2] < b[2])

RECURSIVE SortedKeys(_)
SortedKeys(S) ==
    IF S = {} THEN <<>>
    ELSE LET m == CHOOSE x \in S : \A y \in S \ {x} : KeyLess(x, y)
         IN <<m>> \o SortedKeys(S \ {m})

(***************************************************************************)
(* Input: the scanned tree, the flags and the source tree                  *)
(***************************************************************************)
\* what the parser yields for the document at path p: outbound references
\* (with a fingerprint only when paragraphs are requested) and its anchors
ParserEvents(p, get_paragraphs) ==
    {Uses(h, p, para) : h \in HrefUniverse,
                        para \in {None} \cup (IF get_paragraphs
                                              THEN {Some(f) : f \in Fingerprints}
                                              ELSE {})}
    \cup {Defines(h) : h \in {x \in HrefUniverse : x[1] = p /\ x[2] # 0}}

\* an entry of the walk over base_path
TreeEntries(p, get_paragraphs) ==
    {[kind |-> k, links |-> <<>>] : k \in {"dir", "symlink", "error", "other", "badhtml"}}
    \cup {[kind |-> "html", links |-> l] : l \in SeqsUpTo(ParserEvents(p, get_paragraphs), MaxLinks)}

\* the trees over the paths P whose documents hold at most n Link events; the
\* recursion only enumerates them
RECURSIVE TreesOver(_, _, _)
TreesOver(P, n, get_paragraphs) ==
    IF P = {} THEN {<<>>}
    ELSE LET p == CHOOSE x \in P : \A y \in P : x >= y
         IN UNION {{Append(t, e) : t \in TreesOver(P \ {p}, n - Len(e.links), get_paragraphs)} :
                      e \in {x \in TreeEntries(p, get_paragraphs) : Len(x.links) <= n}}

Trees(get_paragraphs) == TreesOver(Paths, MaxLinks, get_paragraphs)

\* an entry of the walk over sources_path
SourceEntries ==
    {[kind |-> k, paragraphs |-> {}] : k \in {"symlink", "error", "badmd"}}
    \cup {[kind |-> "md", paragraphs |-> ps] : ps \in SUBSET Fingerprints}

\* the --sources option: absent, or a tree of source entries
SourceTrees ==
    {None} \cup {Some(s) : s \in {t \in [SourcePaths -> SourceEntries] :
                                     \A p \in SourcePaths : p > 1 \/ t[p].kind = "md"}}

VARIABLES
    check_anchors,          \* --check-anchors
    sources_path,           \* --sources
    tree,                   \* the entries under base_path
    pc,                     \* position of main
    pending,                \* entries the walk has not handed to a worker
    extracted_links,        \* one Result per fold chunk
    reduce_pos,             \* next chunk of the reduction loop
    defined_links,
    used_links,
    documents_count,
    file_count,
    document_sources,
    index_pos,
    paragraps_to_sourcefile,
    bad_links_and_anchors,
    bad_links_count,
    bad_anchors_count,
    check_pos,              \* <<index of the Href, index of the usage (0: none yet)>>
    findings,               \* the broken usages visited so far, with their attribution
    out,                    \* lines printed
    error,                  \* the error main returned, if any
    exit_status,
    coll_input,             \* SpecColl: the events to ingest
    coll_pending,           \* SpecColl: the events not yet ingested
    collectors,             \* SpecColl: the collectors, or Moved once merged away
    used_collectors,        \* SpecColl: the UsedLinkCollectors fed the same events
    coll_seen               \* SpecColl: the cases of ingest and merge that have occurred

dvars == <<check_anchors, sources_path, tree, pc, pending, extracted_links, reduce_pos,
           defined_links, used_links, documents_count, file_count, document_sources,
           index_pos, paragraps_to_sourcefile, bad_links_and_anchors, bad_links_count,
           bad_anchors_count, check_pos, findings, out, error, exit_status>>
cvars == <<coll_input, coll_pending, collectors, used_collectors, coll_seen>>
vars == <<dvars, cvars>>


(***************************************************************************)
(* collector.rs: LinkState and BrokenLinkCollector                         *)
(***************************************************************************)
Defined == <<"Defined">>
Undefined(links) == <<"Undefined", links>>

EmptyMap == [x \in {} |-> 0]
MapInsert(m, k, v) == [x \in DOMAIN m \cup {k} |-> IF x = k THEN v ELSE m[x]]

\* LinkState::add_usage
add_usage(state, link) ==
    IF state[1] = "Undefined" THEN Undefined(Append(state[2], link)) ELSE state

\* update that keeps only its own usages when both states are Undefined
update_KeepsSelf(slf, other) ==
    IF slf = Defined THEN slf
    ELSE IF other = Defined THEN Defined
    ELSE slf

\* update that lets an Undefined state survive a Defined one
update_UndefinedSurvives(slf, other) ==
    IF slf = Defined THEN slf
    ELSE IF other = Defined THEN slf
    ELSE Undefined(slf[2] \o other[2])

\* LinkState::update
update(slf, other) ==
    IF slf = Defined THEN slf
    ELSE IF other = Defined THEN Defined
    ELSE Undefined(slf[2] \o other[2])

(* UsedLinkCollector (collector.rs lines 12-33) *)
UsedLinkCollector_new == [used_links |-> <<>>]

\* ingest that pushes a usage only if the Vec does not hold it yet
UsedLinkCollector_ingest_Dedup(c, link) ==
    IF link.kind = "Uses" /\ UsedLinkOf(link) \notin Range(c.used_links)
    THEN [used_links |-> Append(c.used_links, UsedLinkOf(link))]
    ELSE c

UsedLinkCollector_ingest(c, link) ==
    IF link.kind = "Uses"
    THEN [used_links |-> Append(c.used_links, UsedLinkOf(link))]
    ELSE c

UsedLinkCollector_merge(c, other) == [used_links |-> c.used_links \o other.used_links]

(* BrokenLinkCollector (collector.rs lines 62-140) *)
BrokenLinkCollector_new == [links |-> EmptyMap, used_link_count |-> 0]

\* ingest whose Defines arm is entry(href).or_insert(Defined)
BrokenLinkCollector_ingest_OrInsert(c, link) ==
    IF link.kind = "Uses"
    THEN LET entry == IF link.href \in DOMAIN c.links
                      THEN c.links[link.href]
                      ELSE Undefined(<<>>)
         IN [links |-> MapInsert(c.links, link.href, add_usage(entry, UsedLinkOf(link))),
             used_link_count |-> c.used_link_count + 1]
    ELSE IF link.href \in DOMAIN c.links THEN c
    ELSE [c EXCEPT !.links = MapInsert(c.links, link.href, Defined)]

BrokenLinkCollector_ingest(c, link) ==
    IF link.kind = "Uses"
    THEN LET entry == IF link.href \in DOMAIN c.links
                      THEN c.links[link.href]
                      ELSE Undefined(<<>>)
         IN [links |-> MapInsert(c.links, link.href, add_usage(entry, UsedLinkOf(link))),
             used_link_count |-> c.used_link_count + 1]
    ELSE [c EXCEPT !.links = MapInsert(c.links, link.href, Defined)]

\* the loop of merge with the Entry::Vacant arm left out
RECURSIVE MergeLinks_OccupiedOnly(_, _, _)
MergeLinks_OccupiedOnly(links, other, hrefs) ==
    IF hrefs = <<>> THEN links
    ELSE LET href == Head(hrefs)
             state == other[href]
             merged == IF href \in DOMAIN links
                       THEN MapInsert(links, href, update(links[href], state))
                       ELSE links
         IN MergeLinks_OccupiedOnly(merged, other, Tail(hrefs))

\* the loop of merge over other.links, in key order
RECURSIVE MergeLinks(_, _, _)
MergeLinks(links, other, hrefs) ==
    IF hrefs = <<>> THEN links
    ELSE LET href == Head(hrefs)
             state == other[href]
             merged == IF href \in DOMAIN links
                       THEN MapInsert(links, href, update(links[href], state))
                       ELSE MapInsert(links, href, state)
         IN MergeLinks(merged, other, Tail(hrefs))

\* merge that leaves used_link_count as it is
BrokenLinkCollector_merge_KeepsCount(c, other) ==
    [links |-> MergeLinks(c.links, other.links, SortedHrefs(DOMAIN other.links)),
     used_link_count |-> c.used_link_count]

BrokenLinkCollector_merge(c, other) ==
    [links |-> MergeLinks(c.links, other.links, SortedHrefs(DOMAIN other.links)),
     used_link_count |-> c.used_link_count + other.used_link_count]

\* the findings of one table entry, soft whenever the path-only Href is a key
BrokenLinksOf_KeyPresent(c, href, check_anchors_) ==
    LET state == c.links[href]
    IN IF state[1] = "Undefined"
       THEN LET hard_404 == IF check_anchors_
                            THEN ~(without_anchor(href) \in DOMAIN c.links)
                            ELSE TRUE
            IN [i \in 1..Len(state[2]) |-> [hard_404 |-> hard_404, used_link |-> state[2][i]]]
       ELSE <<>>

\* the findings of one table entry
BrokenLinksOf(c, href, check_anchors_) ==
    LET state == c.links[href]
    IN IF state[1] = "Undefined"
       THEN LET hard_404 == IF check_anchors_
                            THEN ~(without_anchor(href) \in DOMAIN c.links
                                   /\ c.links[without_anchor(href)] = Defined)
                            ELSE TRUE
            IN [i \in 1..Len(state[2]) |-> [hard_404 |-> hard_404, used_link |-> state[2][i]]]
       ELSE <<>>

RECURSIVE BrokenLinksFrom(_, _, _)
BrokenLinksFrom(c, hrefs, check_anchors_) ==
    IF hrefs = <<>> THEN <<>>
    ELSE BrokenLinksOf(c, Head(hrefs), check_anchors_)
         \o BrokenLinksFrom(c, Tail(hrefs), check_anchors_)

get_broken_links(c, check_anchors_) ==
    BrokenLinksFrom(c, SortedHrefs(DOMAIN c.links), check_anchors_)

used_links_count(c) == c.used_link_count

RECURSIVE IngestAll(_, _)
IngestAll(c, links) ==
    IF links = <<>> THEN c
    ELSE IngestAll(BrokenLinkCollector_ingest(c, Head(links)), Tail(links))

(***************************************************************************)
(* main.rs: the parallel fold (lines 103-162)                              *)
(***************************************************************************)
Ok(sink, documents_count_, file_count_) ==
    [tag |-> "Ok", sink |-> sink, documents_count |-> documents_count_,
     file_count |-> file_count_]
Err(what, path) == [tag |-> "Err", error |-> <<what, path>>]
Moved == [tag |-> "Moved"]

\* the fold closure without the symlink check: a symlink is skipped as a non-file
FoldEntry_SkipsSymlink(acc, p, entry) ==
    IF entry.kind = "error" THEN Err("io error", p)
    ELSE IF entry.kind \in {"dir", "symlink"} THEN acc
    ELSE LET sink == Append(acc.sink, Defines(HrefOfPath(p)))
             files == acc.file_count + 1
         IN IF entry.kind \notin {"html", "badhtml"}
            THEN Ok(sink, acc.documents_count, files)
            ELSE IF entry.kind = "badhtml"
            THEN Err("Failed to read file", p)
            ELSE Ok(sink \o entry.links, acc.documents_count + 1, files)

\* the fold closure applied to the accumulator acc and the entry at path p
FoldEntry(acc, p, entry) ==
    IF entry.kind = "error" THEN Err("io error", p)
    ELSE IF entry.kind = "symlink" THEN Err("Found unsupported symlink at", p)
    ELSE IF entry.kind = "dir" THEN acc
    ELSE LET sink == Append(acc.sink, Defines(HrefOfPath(p)))
             files == acc.file_count + 1
         IN IF entry.kind \notin {"html", "badhtml"}
            THEN Ok(sink, acc.documents_count, files)
            ELSE IF entry.kind = "badhtml"
            THEN Err("Failed to read file", p)
            ELSE Ok(sink \o entry.links, acc.documents_count + 1, files)

Fold(w, p) ==
    /\ pc = "fold"
    /\ p \in pending
    /\ extracted_links[w].tag = "Ok"
    /\ extracted_links' = [extracted_links EXCEPT ![w] = FoldEntry(@, p, tree[p])]
    /\ pending' = pending \ {p}
    /\ UNCHANGED <<check_anchors, sources_path, tree, pc, reduce_pos, defined_links,
                   used_links, documents_count, file_count, document_sources, index_pos,
                   paragraps_to_sourcefile, bad_links_and_anchors, bad_links_count,
                   bad_anchors_count, check_pos, findings, out, error, exit_status>>
    /\ UNCHANGED cvars

\* a collect() that does not wait for the folds to end
Collect_NoBarrier ==
    /\ pc = "fold"
    /\ pc' = "reduce"
    /\ UNCHANGED <<check_anchors, sources_path, tree, pending, extracted_links, reduce_pos,
                   defined_links, used_links, documents_count, file_count,
                   document_sources, index_pos, paragraps_to_sourcefile,
                   bad_links_and_anchors, bad_links_count, bad_anchors_count, check_pos,
                   findings, out, error, exit_status>>
    /\ UNCHANGED cvars

\* collect(): every fold has ended, by exhausting the walk or by an Err
Collect ==
    /\ pc = "fold"
    /\ pending = {} \/ \E w \in 1..NumWorkers : extracted_links[w].tag = "Err"
    /\ pc' = "reduce"
    /\ UNCHANGED <<check_anchors, sources_path, tree, pending, extracted_links, reduce_pos,
                   defined_links, used_links, documents_count, file_count,
                   document_sources, index_pos, paragraps_to_sourcefile,
                   bad_links_and_anchors, bad_links_count, bad_anchors_count, check_pos,
                   findings, out, error, exit_status>>
    /\ UNCHANGED cvars

(***************************************************************************)
(* main.rs: the reduction of the chunks (lines 164-188)                    *)
(***************************************************************************)
\* the loop over one link_chunk with insert(href, vec![used_link]) for the push
RECURSIVE ReduceLinks_KeepsLast(_, _, _)
ReduceLinks_KeepsLast(defined, used, link_chunk) ==
    IF link_chunk = <<>> THEN <<defined, used>>
    ELSE LET link == Head(link_chunk)
         IN IF link.kind = "Uses"
            THEN ReduceLinks_KeepsLast(defined,
                                       MapInsert(used, link.href, <<UsedLinkOf(link)>>),
                                       Tail(link_chunk))
            ELSE ReduceLinks_KeepsLast(defined \cup {link.href}, used, Tail(link_chunk))

\* the loop over one link_chunk that skips the usages of Hrefs already defined
RECURSIVE ReduceLinks_SkipsDefined(_, _, _)
ReduceLinks_SkipsDefined(defined, used, link_chunk) ==
    IF link_chunk = <<>> THEN <<defined, used>>
    ELSE LET link == Head(link_chunk)
         IN IF link.kind = "Uses"
            THEN LET vec == IF link.href \in DOMAIN used THEN used[link.href] ELSE <<>>
                 IN ReduceLinks_SkipsDefined(
                        defined,
                        IF link.href \in defined THEN used
                        ELSE MapInsert(used, link.href, Append(vec, UsedLinkOf(link))),
                        Tail(link_chunk))
            ELSE ReduceLinks_SkipsDefined(defined \cup {link.href}, used, Tail(link_chunk))

\* the loop over one link_chunk: <<defined_links, used_links>> afterwards
RECURSIVE ReduceLinks(_, _, _)
ReduceLinks(defined, used, link_chunk) ==
    IF link_chunk = <<>> THEN <<defined, used>>
    ELSE LET link == Head(link_chunk)
         IN IF link.kind = "Uses"
            THEN LET vec == IF link.href \in DOMAIN used THEN used[link.href] ELSE <<>>
                 IN ReduceLinks(defined,
                                MapInsert(used, link.href, Append(vec, UsedLinkOf(link))),
                                Tail(link_chunk))
            ELSE ReduceLinks(defined \cup {link.href}, used, Tail(link_chunk))

\* main returns Err(e): nothing further is printed, the status is the failure status
Fail(e) ==
    /\ pc' = "failed"
    /\ error' = Some(e)
    /\ exit_status' = Some(ExitError)

ReduceChunk ==
    /\ pc = "reduce"
    /\ LET result == extracted_links[reduce_pos]
       IN IF result.tag = "Err"
          THEN /\ Fail(result.error)
               /\ UNCHANGED <<extracted_links, reduce_pos, defined_links, used_links,
                              documents_count, file_count>>
          ELSE LET r == ReduceLinks(defined_links, used_links, result.sink)
               IN /\ documents_count' = documents_count + result.documents_count
                  /\ file_count' = file_count + result.file_count
                  /\ defined_links' = r[1]
                  /\ used_links' = r[2]
                  /\ extracted_links' = [extracted_links EXCEPT ![reduce_pos] = Moved]
                  /\ reduce_pos' = reduce_pos + 1
                  /\ pc' = IF reduce_pos = NumWorkers THEN "sources" ELSE "reduce"
                  /\ UNCHANGED <<error, exit_status>>
    /\ UNCHANGED <<check_anchors, sources_path, tree, pending, document_sources, index_pos,
                   paragraps_to_sourcefile, bad_links_and_anchors, bad_links_count,
                   bad_anchors_count, check_pos, findings, out>>
    /\ UNCHANGED cvars


(***************************************************************************)
(* main.rs: the paragraph index (lines 190-245)                            *)
(***************************************************************************)
SourcePathSeq == [i \in 1..Cardinality(SourcePaths) |-> i]

\* the walk over sources_path: <<"Ok", document_sources, file_count>> or <<"Err", e>>
RECURSIVE WalkSources(_, _, _, _)
WalkSources(sources, paths, found, files) ==
    IF paths = <<>> THEN <<"Ok", found, files>>
    ELSE LET p == Head(paths)
             entry == sources[p]
         IN IF entry.kind = "error" THEN <<"Err", <<"io error", p>>>>
            ELSE IF entry.kind \in {"md", "badmd"}
            THEN WalkSources(sources, Tail(paths), Append(found, p), files + 1)
            ELSE WalkSources(sources, Tail(paths), found, files + 1)

DiscoverSources ==
    /\ pc = "sources"
    /\ sources_path # None
    /\ LET walk == WalkSources(sources_path[1], SourcePathSeq, <<>>, 0)
       IN IF walk[1] = "Err"
          THEN /\ Fail(walk[2])
               /\ out' = Append(out, <<"Discovering source files">>)
               /\ UNCHANGED <<document_sources, index_pos>>
          ELSE /\ document_sources' = walk[2]
               /\ index_pos' = 1
               /\ out' = out \o <<<<"Discovering source files">>,
                                  <<"Checking out of files in source folder",
                                    Len(walk[2]), walk[3]>>>>
               /\ pc' = "index"
               /\ UNCHANGED <<error, exit_status>>
    /\ UNCHANGED <<check_anchors, sources_path, tree, pending, extracted_links, reduce_pos,
                   defined_links, used_links, documents_count, file_count,
                   paragraps_to_sourcefile, bad_links_and_anchors, bad_links_count,
                   bad_anchors_count, check_pos, findings>>
    /\ UNCHANGED cvars

\* the loop over one source's paragraphs with insert(paragraph, vec![source])
RECURSIVE IndexParagraphs_Overwrites(_, _, _)
IndexParagraphs_Overwrites(index, paragraphs, source) ==
    IF paragraphs = {} THEN index
    ELSE LET paragraph == CHOOSE f \in paragraphs : \A g \in paragraphs : f <= g
         IN IndexParagraphs_Overwrites(MapInsert(index, paragraph, <<source>>),
                                       paragraphs \ {paragraph}, source)

\* the loop over one source's paragraphs
RECURSIVE IndexParagraphs(_, _, _)
IndexParagraphs(index, paragraphs, source) ==
    IF paragraphs = {} THEN index
    ELSE LET paragraph == CHOOSE f \in paragraphs : \A g \in paragraphs : f <= g
             vec == IF paragraph \in DOMAIN index THEN index[paragraph] ELSE <<>>
         IN IndexParagraphs(MapInsert(index, paragraph, Append(vec, source)),
                            paragraphs \ {paragraph}, source)

IndexSource ==
    /\ pc = "index"
    /\ index_pos <= Len(document_sources)
    /\ LET source == document_sources[index_pos]
           entry == sources_path[1][source]
       IN IF entry.kind = "badmd"
          THEN /\ Fail(<<"Failed to read file", source>>)
               /\ UNCHANGED <<paragraps_to_sourcefile, index_pos>>
          ELSE /\ paragraps_to_sourcefile' =
                      IndexParagraphs(paragraps_to_sourcefile, entry.paragraphs, source)
               /\ index_pos' = index_pos + 1
               /\ UNCHANGED <<pc, error, exit_status>>
    /\ UNCHANGED <<check_anchors, sources_path, tree, pending, extracted_links, reduce_pos,
                   defined_links, used_links, documents_count, file_count,
                   document_sources, bad_links_and_anchors, bad_links_count,
                   bad_anchors_count, check_pos, findings, out>>
    /\ UNCHANGED cvars

(***************************************************************************)
(* main.rs: classification and attribution (lines 247-293)                 *)
(***************************************************************************)
\* used_links.len(): the number of used Hrefs
used_links_len == Cardinality(DOMAIN used_links)

StartCheck ==
    /\ \/ pc = "sources" /\ sources_path = None
       \/ pc = "index" /\ index_pos > Len(document_sources)
    /\ out' = Append(out, <<"Checking links from files (documents)",
                            used_links_len, file_count, documents_count>>)
    /\ pc' = "check"
    /\ UNCHANGED <<check_anchors, sources_path, tree, pending, extracted_links, reduce_pos,
                   defined_links, used_links, documents_count, file_count,
                   document_sources, index_pos, paragraps_to_sourcefile,
                   bad_links_and_anchors, bad_links_count, bad_anchors_count, check_pos,
                   findings, error, exit_status>>
    /\ UNCHANGED cvars

UsedHrefs == SortedHrefs(DOMAIN used_links)

\* hard_404 computed without regard to the check_anchors flag
Hard404_IgnoresFlag(href) == ~(without_anchor(href) \in defined_links)

\* hard_404 that takes every Href with an anchor for a broken anchor
Hard404_AnchorIsSoft(href) == ~check_anchors \/ href[2] = 0

Hard404(href) == ~check_anchors \/ ~(without_anchor(href) \in defined_links)

\* one turn of the loop over used_links, up to the loop over its usages
CheckHref ==
    /\ pc = "check"
    /\ check_pos[2] = 0
    /\ check_pos[1] <= Len(UsedHrefs)
    /\ LET href == UsedHrefs[check_pos[1]]
       IN IF ~(href \in defined_links)
          THEN /\ IF Hard404(href)
                  THEN /\ bad_links_count' = bad_links_count + 1
                       /\ UNCHANGED bad_anchors_count
                  ELSE /\ bad_anchors_count' = bad_anchors_count + 1
                       /\ UNCHANGED bad_links_count
               /\ check_pos' = <<check_pos[1], 1>>
          ELSE /\ check_pos' = <<check_pos[1] + 1, 0>>
               /\ UNCHANGED <<bad_links_count, bad_anchors_count>>
    /\ UNCHANGED <<check_anchors, sources_path, tree, pc, pending, extracted_links,
                   reduce_pos, defined_links, used_links, documents_count, file_count,
                   document_sources, index_pos, paragraps_to_sourcefile,
                   bad_links_and_anchors, findings, out, error, exit_status>>
    /\ UNCHANGED cvars

\* attribution that does not test had_sources before the raw-file entry
AttributionKeys_AlsoRaw(link, index) ==
    LET had_sources == link.paragraph # None /\ link.paragraph[1] \in DOMAIN index
    IN (IF had_sources
        THEN [i \in 1..Len(index[link.paragraph[1]]) |->
                 <<~had_sources, index[link.paragraph[1]][i]>>]
        ELSE <<>>)
       \o << <<TRUE, link.path>> >>

\* the keys of the grouped entries one usage is attributed to, in order
AttributionKeys(link, index) ==
    LET had_sources == link.paragraph # None /\ link.paragraph[1] \in DOMAIN index
    IN IF had_sources
       THEN [i \in 1..Len(index[link.paragraph[1]]) |->
                <<~had_sources, index[link.paragraph[1]][i]>>]
       ELSE << <<~had_sources, link.path>> >>

\* entry(key).or_insert_with(..), then the insert into bad_links in either case
InsertBad_AlwaysHard(grouped, key, href, hard_404) ==
    LET sets == IF key \in DOMAIN grouped THEN grouped[key] ELSE <<{}, {}>>
    IN MapInsert(grouped, key, <<sets[1] \cup {href}, sets[2]>>)

\* entry(key).or_insert_with(..), then the insert into bad_links or bad_anchors
InsertBad(grouped, key, href, hard_404) ==
    LET sets == IF key \in DOMAIN grouped THEN grouped[key] ELSE <<{}, {}>>
    IN MapInsert(grouped, key,
                 IF hard_404 THEN <<sets[1] \cup {href}, sets[2]>>
                 ELSE <<sets[1], sets[2] \cup {href}>>)

RECURSIVE InsertAll(_, _, _, _)
InsertAll(grouped, keys, href, hard_404) ==
    IF keys = <<>> THEN grouped
    ELSE InsertAll(InsertBad(grouped, Head(keys), href, hard_404), Tail(keys), href, hard_404)

\* one turn of the loop over the usages of a broken Href
AttributeLink ==
    /\ pc = "check"
    /\ check_pos[2] > 0
    /\ LET href == UsedHrefs[check_pos[1]]
           links == used_links[href]
           link == links[check_pos[2]]
           keys == AttributionKeys(link, paragraps_to_sourcefile)
       IN /\ bad_links_and_anchors' =
                 InsertAll(bad_links_and_anchors, keys, href, Hard404(href))
          /\ findings' = Append(findings, [used_link |-> link, hard_404 |-> Hard404(href),
                                          keys |-> Range(keys)])
          /\ check_pos' = IF check_pos[2] = Len(links)
                          THEN <<check_pos[1] + 1, 0>>
                          ELSE <<check_pos[1], check_pos[2] + 1>>
    /\ UNCHANGED <<check_anchors, sources_path, tree, pc, pending, extracted_links,
                   reduce_pos, defined_links, used_links, documents_count, file_count,
                   document_sources, index_pos, paragraps_to_sourcefile, bad_links_count,
                   bad_anchors_count, out, error, exit_status>>
    /\ UNCHANGED cvars

(***************************************************************************)
(* main.rs: the report and the exit status (lines 295-351)                 *)
(***************************************************************************)
HrefLines(what, hrefs) == [i \in 1..Len(hrefs) |-> <<what, hrefs[i]>>]

\* the block printed for one grouped entry
EntryLines(grouped, key) ==
    << <<"file", key[2]>> >>
    \o HrefLines("error: bad link", SortedHrefs(grouped[key][1]))
    \o HrefLines("warning: bad anchor", SortedHrefs(grouped[key][2]))

RECURSIVE ReportLines(_, _)
ReportLines(grouped, keys) ==
    IF keys = <<>> THEN <<>>
    ELSE EntryLines(grouped, Head(keys)) \o ReportLines(grouped, Tail(keys))

PrintReport ==
    /\ pc = "check"
    /\ check_pos[2] = 0
    /\ check_pos[1] > Len(UsedHrefs)
    /\ out' = out
              \o ReportLines(bad_links_and_anchors, SortedKeys(DOMAIN bad_links_and_anchors))
              \o << <<"Found bad links", bad_links_count>> >>
              \o (IF check_anchors THEN << <<"Found bad anchors", bad_anchors_count>> >>
                  ELSE <<>>)
    /\ pc' = "exit"
    /\ UNCHANGED <<check_anchors, sources_path, tree, pending, extracted_links, reduce_pos,
                   defined_links, used_links, documents_count, file_count,
                   document_sources, index_pos, paragraps_to_sourcefile,
                   bad_links_and_anchors, bad_links_count, bad_anchors_count, check_pos,
                   findings, error, exit_status>>
    /\ UNCHANGED cvars

\* the exit status with the two tests in the other order
ExitStatus_AnchorsFirst(bad_links, bad_anchors) ==
    IF bad_anchors > 0 THEN ExitBadAnchors
    ELSE IF bad_links > 0 THEN ExitBadLinks
    ELSE ExitOk

ExitStatus(bad_links, bad_anchors) ==
    IF bad_links > 0 THEN ExitBadLinks
    ELSE IF bad_anchors > 0 THEN ExitBadAnchors
    ELSE ExitOk

Exit ==
    /\ pc = "exit"
    /\ exit_status' = Some(ExitStatus(bad_links_count, bad_anchors_count))
    /\ pc' = "done"
    /\ UNCHANGED <<check_anchors, sources_path, tree, pending, extracted_links, reduce_pos,
                   defined_links, used_links, documents_count, file_count,
                   document_sources, index_pos, paragraps_to_sourcefile,
                   bad_links_and_anchors, bad_links_count, bad_anchors_count, check_pos,
                   findings, out, error>>
    /\ UNCHANGED cvars

(***************************************************************************)
(* The run of main                                                         *)
(***************************************************************************)
CollIdle ==
    /\ coll_input = <<>>
    /\ coll_pending = <<>>
    /\ collectors = <<>>
    /\ used_collectors = <<>>
    /\ coll_seen = {}

Init ==
    /\ check_anchors \in BOOLEAN
    /\ sources_path \in SourceTrees
    /\ tree \in Trees(sources_path # None)
    /\ pc = "fold"
    /\ pending = Paths
    /\ extracted_links = [w \in 1..NumWorkers |-> Ok(<<>>, 0, 0)]
    /\ reduce_pos = 1
    /\ defined_links = {}
    /\ used_links = EmptyMap
    /\ documents_count = 0
    /\ file_count = 0
    /\ document_sources = <<>>
    /\ index_pos = 1
    /\ paragraps_to_sourcefile = EmptyMap
    /\ bad_links_and_anchors = EmptyMap
    /\ bad_links_count = 0
    /\ bad_anchors_count = 0
    /\ check_pos = <<1, 0>>
    /\ findings = <<>>
    /\ out = << <<"Reading files">> >>
    /\ error = None
    /\ exit_status = None
    /\ CollIdle

Next ==
    \/ \E w \in 1..NumWorkers, p \in Paths : Fold(w, p)
    \/ Collect
    \/ ReduceChunk
    \/ DiscoverSources
    \/ IndexSource
    \/ StartCheck
    \/ CheckHref
    \/ AttributeLink
    \/ PrintReport
    \/ Exit

Spec == Init /\ [][Next]_vars


(***************************************************************************)
(* SpecColl: BrokenLinkCollectors built from new() by ingest, and merged   *)
(***************************************************************************)
\* the events a collector may be fed
CollHrefs == {<<1, 0>>, <<1, 1>>}

CollLinks ==
    {Uses(h, p, None) : h \in CollHrefs, p \in Paths}
    \cup {Defines(h) : h \in CollHrefs}

\* an arbitrary fixed order of the events, to write a collection of events once
LinkRank(l) ==
    (((IF l.kind = "Uses" THEN 0 ELSE 1) * 10 + l.href[1]) * 10 + l.href[2]) * 10
    + (IF l.kind = "Uses" THEN l.path ELSE 0)

CollInputs ==
    {s \in SeqsUpTo(CollLinks, MaxEvents) :
        \A i \in 1..(Len(s) - 1) : LinkRank(s[i]) <= LinkRank(s[i + 1])}

RemoveAt(s, k) == SubSeq(s, 1, k - 1) \o SubSeq(s, k + 1, Len(s))

Live(c) == c # Moved

\* whether href is Undefined with at least one usage in the table links
HasUsages(links, href) ==
    href \in DOMAIN links /\ links[href] # Defined /\ Len(links[href][2]) > 0

IsDefined(links, href) == href \in DOMAIN links /\ links[href] = Defined

\* the cases of the claims that c.ingest(link) is an instance of
IngestCases(c, link) ==
    {"ingest: Defines discards usages" : x \in
        (IF link.kind = "Defines" /\ HasUsages(c.links, link.href) THEN {1} ELSE {})}
    \cup {"ingest: Uses of a Defined Href" : x \in
        (IF link.kind = "Uses" /\ IsDefined(c.links, link.href) THEN {1} ELSE {})}

\* the cases of the claims that c.merge(other) is an instance of
MergeCases(c, other) ==
    {"merge: usages concatenated" : h \in
        {x \in CollHrefs : HasUsages(c.links, x) /\ HasUsages(other.links, x)}}
    \cup {"merge: Defined discards usages" : h \in
        {x \in CollHrefs : HasUsages(c.links, x) /\ IsDefined(other.links, x)}}
    \cup {"merge: Defined kept" : h \in
        {x \in CollHrefs : IsDefined(c.links, x) /\ HasUsages(other.links, x)}}
    \cup {"merge: keys of both sides" : x \in
        (IF /\ DOMAIN c.links \ DOMAIN other.links # {}
            /\ DOMAIN other.links \ DOMAIN c.links # {} THEN {1} ELSE {})}

\* collectors[i].ingest(coll_pending[k]), and the same event to the
\* UsedLinkCollector that consumes the same stream
CollIngest(i, k) ==
    /\ pc = "collectors"
    /\ Live(collectors[i])
    /\ k \in DOMAIN coll_pending
    /\ \A j \in 1..(k - 1) : coll_pending[j] # coll_pending[k]
    /\ coll_pending' = RemoveAt(coll_pending, k)
    /\ collectors' = [collectors EXCEPT ![i] = BrokenLinkCollector_ingest(@, coll_pending[k])]
    /\ used_collectors' =
           [used_collectors EXCEPT ![i] = UsedLinkCollector_ingest(@, coll_pending[k])]
    /\ coll_seen' = coll_seen \cup IngestCases(collectors[i], coll_pending[k])
    /\ UNCHANGED coll_input
    /\ UNCHANGED dvars

\* collectors[i].merge(collectors[j]): collectors[j] is moved into the call;
\* the UsedLinkCollectors of the two streams are merged alike
CollMerge(i, j) ==
    /\ pc = "collectors"
    /\ i # j
    /\ Live(collectors[i])
    /\ Live(collectors[j])
    /\ UNCHANGED <<coll_input, coll_pending>>
    /\ collectors' = [collectors EXCEPT
                         ![i] = BrokenLinkCollector_merge(@, collectors[j]),
                         ![j] = Moved]
    /\ used_collectors' = [used_collectors EXCEPT
                              ![i] = UsedLinkCollector_merge(@, used_collectors[j]),
                              ![j] = Moved]
    /\ coll_seen' = coll_seen \cup MergeCases(collectors[i], collectors[j])
    /\ UNCHANGED dvars

DriverIdle ==
    /\ check_anchors = FALSE
    /\ sources_path = None
    /\ tree = <<>>
    /\ pc = "collectors"
    /\ pending = {}
    /\ extracted_links = <<>>
    /\ reduce_pos = 1
    /\ defined_links = {}
    /\ used_links = EmptyMap
    /\ documents_count = 0
    /\ file_count = 0
    /\ document_sources = <<>>
    /\ index_pos = 1
    /\ paragraps_to_sourcefile = EmptyMap
    /\ bad_links_and_anchors = EmptyMap
    /\ bad_links_count = 0
    /\ bad_anchors_count = 0
    /\ check_pos = <<1, 0>>
    /\ findings = <<>>
    /\ out = <<>>
    /\ error = None
    /\ exit_status = None

InitColl ==
    /\ DriverIdle
    /\ coll_input \in CollInputs
    /\ coll_pending = coll_input
    /\ collectors = [i \in 1..NumCollectors |-> BrokenLinkCollector_new]
    /\ used_collectors = [i \in 1..NumCollectors |-> UsedLinkCollector_new]
    /\ coll_seen = {}

NextColl ==
    \/ \E i \in 1..NumCollectors, k \in 1..MaxEvents : CollIngest(i, k)
    \/ \E i \in 1..NumCollectors, j \in 1..NumCollectors : CollMerge(i, j)

SpecColl == InitColl /\ [][NextColl]_vars


(***************************************************************************)
(* The input as the claims speak of it                                     *)
(***************************************************************************)
\* the Link events of the entry at path p: a file defines its own Href, a
\* document also yields what the parser finds in it
EntryLinks(p) ==
    IF tree[p].kind = "other" THEN <<Defines(HrefOfPath(p))>>
    ELSE IF tree[p].kind = "html" THEN <<Defines(HrefOfPath(p))>> \o tree[p].links
    ELSE <<>>

RECURSIVE LinksOfPaths(_)
LinksOfPaths(paths) ==
    IF paths = <<>> THEN <<>> ELSE EntryLinks(Head(paths)) \o LinksOfPaths(Tail(paths))

\* every Link event of the scanned tree
InputLinks == IF pc = "collectors" THEN coll_input
              ELSE LinksOfPaths([i \in 1..Cardinality(Paths) |-> i])

\* the Hrefs with at least one Defines event, the Hrefs with at least one Uses event
InputDefined == {l.href : l \in {x \in Range(InputLinks) : x.kind = "Defines"}}
InputUsed == {l.href : l \in {x \in Range(InputLinks) : x.kind = "Uses"}}

\* the Uses events of Href h, as a sequence of UsedLinks
InputUsages(h) ==
    SelectSeq([i \in 1..Len(InputLinks) |->
                  IF InputLinks[i].kind = "Uses" THEN UsedLinkOf(InputLinks[i])
                  ELSE [href |-> <<0, 0>>, path |-> 0, paragraph |-> None]],
              LAMBDA u : u.href = h)

\* the number of occurrences of each element of a sequence
BagOf(s) == [x \in Range(s) |-> Cardinality({i \in DOMAIN s : s[i] = x})]

\* a table as (Href, is-Defined, usage-multiset) triples
TableOf(c) ==
    [h \in DOMAIN c.links |->
        IF c.links[h] = Defined THEN <<"Defined">>
        ELSE <<"Undefined", BagOf(c.links[h][2])>>]

LiveCollectors == {i \in DOMAIN collectors : Live(collectors[i])}

\* every event is ingested and every collector is merged into one
CollFinal ==
    /\ pc = "collectors"
    /\ coll_pending = <<>>
    /\ Cardinality(LiveCollectors) = 1

\* one collector that ingests all events directly
DirectCollector == IngestAll(BrokenLinkCollector_new, coll_input)

\* the fold is joined with every chunk Ok: the workers' partial results
JoinedOk ==
    /\ pc = "reduce"
    /\ reduce_pos = 1
    /\ \A w \in 1..NumWorkers : extracted_links[w].tag = "Ok"

\* the chunks as BrokenLinkCollectors, merged in the order of the reduction
ChunkCollector(w) == IngestAll(BrokenLinkCollector_new, extracted_links[w].sink)

RECURSIVE MergeChunks(_, _)
MergeChunks(c, w) ==
    IF w > NumWorkers THEN c
    ELSE MergeChunks(BrokenLinkCollector_merge(c, ChunkCollector(w)), w + 1)

MergedChunks == MergeChunks(BrokenLinkCollector_new, 1)

\* the Hrefs the grouped report lists, as hard and as soft
ReportedHard == UNION {bad_links_and_anchors[k][1] : k \in DOMAIN bad_links_and_anchors}
ReportedSoft == UNION {bad_links_and_anchors[k][2] : k \in DOMAIN bad_links_and_anchors}

(***************************************************************************)
(* Claims                                                                  *)
(***************************************************************************)
\* C1: when every event of the input collection is ingested into some
\* collector and the collectors are merged into one, in any order and tree
\* shape, the table is the table of one collector that ingested all events:
\* same Href keys, same Defined/Undefined state, same multiset of usages.
C1_MergeEqualsDirectIngestion ==
    CollFinal =>
        \A i \in LiveCollectors : TableOf(collectors[i]) = TableOf(DirectCollector)

\* C1 witness: a merge joined two collectors that both held usages of one
\* undefined Href, and the final table holds them beside a Defined Href
C1_Witness ==
    /\ CollFinal
    /\ "merge: usages concatenated" \in coll_seen
    /\ \E i \in LiveCollectors :
          /\ \E h \in DOMAIN collectors[i].links : collectors[i].links[h] = Defined
          /\ \E h \in DOMAIN collectors[i].links : HasUsages(collectors[i].links, h)

\* C2: an Href with a Defines event anywhere in the input is never among the
\* findings, hard or soft: not in the grouped entries of main, not among the
\* usages main visits, and not among get_broken_links of the workers' chunks
\* ingested into collectors and merged.
C2_DefinedNeverBroken ==
    /\ pc # "collectors" =>
          /\ ReportedHard \cap InputDefined = {}
          /\ ReportedSoft \cap InputDefined = {}
          /\ \A i \in DOMAIN findings : findings[i].used_link.href \notin InputDefined
    /\ JoinedOk =>
          \A b \in Range(get_broken_links(MergedChunks, check_anchors)) :
              b.used_link.href \notin InputDefined

\* C2 witness: the run is over, an Href that is used by one file and defined
\* by another was collected as used, and another Href is reported broken
C2_Witness ==
    /\ pc = "done"
    /\ \E h \in InputDefined \cap DOMAIN used_links :
          /\ \E u \in Range(used_links[h]) : HrefOfPath(u.path) # without_anchor(h)
          /\ h \notin ReportedHard \cup ReportedSoft
    /\ ReportedHard \cup ReportedSoft # {}

\* whether the findings of an undefined Href are hard, read off the input
ExpectedHard(h) == ~check_anchors \/ without_anchor(h) \notin InputDefined

\* the undefined used Hrefs of the input
InputBroken == InputUsed \ InputDefined

\* C3: every finding for an undefined Href h is hard exactly when anchor
\* checking is disabled or without_anchor(h) is not Defined, and soft
\* otherwise; after the run every undefined used Href is listed, as hard or
\* as soft accordingly (so /a#x with /a defined is soft under check_anchors
\* and hard without it).
C3_HardOrSoft ==
    /\ \A i \in DOMAIN findings :
          findings[i].hard_404 = ExpectedHard(findings[i].used_link.href)
    /\ \A h \in ReportedHard : ExpectedHard(h)
    /\ \A h \in ReportedSoft : ~ExpectedHard(h)
    /\ pc = "done" =>
          \A h \in InputBroken : h \in (IF ExpectedHard(h) THEN ReportedHard ELSE ReportedSoft)
    /\ JoinedOk =>
          \A b \in Range(get_broken_links(MergedChunks, check_anchors)) :
              b.hard_404 = ExpectedHard(b.used_link.href)

\* C3 witness: /a#x is undefined and /a is defined; anchors are checked and
\* the finding is soft
C3_Witness ==
    /\ pc = "done"
    /\ check_anchors
    /\ <<1, 1>> \in ReportedSoft
    /\ <<1, 0>> \in InputDefined
    /\ \E i \in DOMAIN findings :
          findings[i].used_link.href = <<1, 1>> /\ ~findings[i].hard_404


\* the number of elements of sequence s that satisfy Test
CountIn(s, Test(_)) == Cardinality({i \in DOMAIN s : Test(s[i])})

\* the run has printed its report
Reported == pc \in {"exit", "done"}

HardBroken == {h \in InputBroken : ExpectedHard(h)}
SoftBroken == {h \in InputBroken : ~ExpectedHard(h)}

\* the findings of the input: one per Uses event of an undefined Href
InputFindings(hard) ==
    SumOver(IF hard THEN HardBroken ELSE SoftBroken,
            [h \in HrefUniverse |-> Len(InputUsages(h))])

\* per Href, one finding per usage if the Href is undefined and none otherwise
FindingsPerUsage ==
    /\ Reported =>
          \A h \in HrefUniverse :
              CountIn(findings, LAMBDA f : f.used_link.href = h)
                  = IF h \in InputDefined THEN 0 ELSE Len(InputUsages(h))
    /\ JoinedOk =>
          \A h \in HrefUniverse :
              CountIn(get_broken_links(MergedChunks, check_anchors),
                      LAMBDA b : b.used_link.href = h)
                  = IF h \in InputDefined THEN 0 ELSE Len(InputUsages(h))

\* C4 as claimed: n Uses events of an undefined Href give n findings, a Defined
\* Href gives none, and the bad-link and bad-anchor numbers of the run count
\* the hard and the soft findings, that is usages.
C4_CountsPerUsage ==
    /\ FindingsPerUsage
    /\ Reported =>
          /\ bad_links_count = InputFindings(TRUE)
          /\ bad_anchors_count = InputFindings(FALSE)

\* C4 as amended: n Uses events of an undefined Href give n findings, a
\* Defined Href gives none; the bad-link and bad-anchor numbers of the run
\* count the undefined Hrefs, hard and soft, each once whatever its usages.
C4_FindingsPerUsageCountsPerHref ==
    /\ FindingsPerUsage
    /\ Reported =>
          /\ bad_links_count = Cardinality(HardBroken)
          /\ bad_anchors_count = Cardinality(SoftBroken)

\* C4 witness: an undefined Href with two usages gave two findings and is
\* counted once
C4_Witness ==
    /\ pc = "done"
    /\ \E h \in InputBroken :
          /\ Len(InputUsages(h)) = 2
          /\ CountIn(findings, LAMBDA f : f.used_link.href = h) = 2
    /\ bad_links_count + bad_anchors_count = 1

\* the source documents that hold the fingerprint fp
SourcesOf(fp) ==
    IF sources_path = None THEN {}
    ELSE {p \in SourcePaths : /\ sources_path[1][p].kind = "md"
                              /\ fp \in sources_path[1][p].paragraphs}

\* the keys of the grouped entries the usage u belongs in
ExpectedKeys(u) ==
    IF u.paragraph # None /\ SourcesOf(u.paragraph[1]) # {}
    THEN {<<FALSE, p>> : p \in SourcesOf(u.paragraph[1])}
    ELSE {<<TRUE, u.path>>}

\* href is in the hard or the soft set of the grouped entry key
Listed(key, href, hard) ==
    /\ key \in DOMAIN bad_links_and_anchors
    /\ href \in bad_links_and_anchors[key][IF hard THEN 1 ELSE 2]

\* C5: a broken usage whose fingerprint is held by k >= 1 source documents is
\* attributed to the entries (false, source) of exactly those documents and
\* not to its raw file; a usage without fingerprint, or whose fingerprint no
\* source document holds (no source tree included), is attributed to the
\* one entry (true, path of the referencing file).  The grouped entries hold
\* these attributions and no other.
C5_Attribution ==
    /\ \A i \in DOMAIN findings :
          /\ findings[i].keys = ExpectedKeys(findings[i].used_link)
          /\ \A key \in findings[i].keys :
                Listed(key, findings[i].used_link.href, findings[i].hard_404)
    /\ \A key \in DOMAIN bad_links_and_anchors :
          \A hard \in BOOLEAN :
              \A h \in bad_links_and_anchors[key][IF hard THEN 1 ELSE 2] :
                  \E i \in DOMAIN findings :
                      /\ findings[i].used_link.href = h
                      /\ findings[i].hard_404 = hard
                      /\ key \in ExpectedKeys(findings[i].used_link)

\* C5 witness: one broken usage was attributed to two source documents and
\* another, without fingerprint, to its raw file
C5_Witness ==
    /\ pc = "done"
    /\ \E i \in DOMAIN findings :
          /\ findings[i].used_link.paragraph # None
          /\ Cardinality(findings[i].keys) = 2
          /\ \A key \in findings[i].keys : key[1] = FALSE
    /\ \E i \in DOMAIN findings :
          /\ findings[i].used_link.paragraph = None
          /\ findings[i].keys = {<<TRUE, findings[i].used_link.path>>}
    /\ Cardinality(DOMAIN bad_links_and_anchors) = 3

\* C6: when the run completes without fatal error, the exit status is 0
\* exactly when there is no hard and no soft finding, 1 exactly when there is
\* a hard finding, and 2 exactly when there is a soft finding and no hard one.
C6_ExitStatus ==
    pc = "done" =>
        /\ exit_status = Some(ExitOk) <=> (HardBroken = {} /\ SoftBroken = {})
        /\ exit_status = Some(ExitBadLinks) <=> HardBroken # {}
        /\ exit_status = Some(ExitBadAnchors) <=> (SoftBroken # {} /\ HardBroken = {})

\* C6 witness: a run with a hard and a soft finding ended with status 1
C6_Witness ==
    /\ pc = "done"
    /\ \E i \in DOMAIN findings : findings[i].hard_404
    /\ \E i \in DOMAIN findings : ~findings[i].hard_404
    /\ exit_status = Some(ExitBadLinks)

\* an entry of the scanned tree is fatal to the fold
TreeFails == \E p \in Paths : tree[p].kind \in {"error", "symlink", "badhtml"}

\* the walk of the source tree fails, a source document fails to parse
SourceWalkFails ==
    sources_path # None /\ \E p \in SourcePaths : sources_path[1][p].kind = "error"
SourceParseFails ==
    sources_path # None /\ \E p \in SourcePaths : sources_path[1][p].kind = "badmd"

InputFails == TreeFails \/ SourceWalkFails \/ SourceParseFails

\* the Uses events of the undefined Hrefs
BrokenUsages == UNION {Range(InputUsages(h)) : h \in InputBroken}

\* the grouped report the input determines
ExpectedGrouped ==
    [key \in UNION {ExpectedKeys(u) : u \in BrokenUsages} |->
        << {u.href : u \in {v \in BrokenUsages :
                               ExpectedHard(v.href) /\ key \in ExpectedKeys(v)}},
           {u.href : u \in {v \in BrokenUsages :
                               ~ExpectedHard(v.href) /\ key \in ExpectedKeys(v)}} >>]

\* the exit status the input determines
ExpectedExit ==
    IF InputFails THEN ExitError
    ELSE IF HardBroken # {} THEN ExitBadLinks
    ELSE IF SoftBroken # {} THEN ExitBadAnchors
    ELSE ExitOk

\* the text the input determines
ExpectedOut ==
    << <<"Reading files">> >>
    \o (IF TreeFails \/ sources_path = None THEN <<>>
        ELSE << <<"Discovering source files">> >>
             \o (IF SourceWalkFails THEN <<>>
                 ELSE << <<"Checking out of files in source folder",
                           Cardinality({p \in SourcePaths :
                                           sources_path[1][p].kind \in {"md", "badmd"}}),
                           Cardinality(SourcePaths)>> >>))
    \o (IF InputFails THEN <<>>
        ELSE << <<"Checking links from files (documents)",
                  Cardinality(InputUsed),
                  Cardinality({p \in Paths : tree[p].kind \in {"html", "other"}}),
                  Cardinality({p \in Paths : tree[p].kind = "html"})>> >>
             \o ReportLines(ExpectedGrouped, SortedKeys(DOMAIN ExpectedGrouped))
             \o << <<"Found bad links", Cardinality(HardBroken)>> >>
             \o (IF check_anchors
                 THEN << <<"Found bad anchors", Cardinality(SoftBroken)>> >>
                 ELSE <<>>))

\* C7: the grouped report (its keys in order, the hard and soft Href sets of
\* each key, the printed counts) and the exit status of a finished run are a
\* function of the file tree and the flags alone: whatever the assignment of
\* files to workers, the order in which a worker sees its files and the order
\* of the reduction, two runs over the same input end with the same report
\* and the same exit status.
C7_Deterministic ==
    pc \in {"done", "failed"} =>
        /\ pc = "failed" <=> InputFails
        /\ bad_links_and_anchors = (IF InputFails THEN EmptyMap ELSE ExpectedGrouped)
        /\ out = ExpectedOut
        /\ exit_status = Some(ExpectedExit)

\* C7 witness: the reduction met the two usages of a broken Href in the
\* reverse of the path order of their files, and the report has two entries
C7_Witness ==
    /\ pc = "done"
    /\ Cardinality(DOMAIN bad_links_and_anchors) >= 2
    /\ \E h \in DOMAIN used_links :
          /\ Len(used_links[h]) = 2
          /\ used_links[h][1].path > used_links[h][2].path

\* no grouped entry, no finding and no bad-link or bad-anchor count is emitted
NothingReported ==
    /\ bad_links_and_anchors = EmptyMap
    /\ findings = <<>>
    /\ \A i \in DOMAIN out :
          out[i][1] \notin {"file", "error: bad link", "warning: bad anchor",
                            "Found bad links", "Found bad anchors"}

\* a fatal entry stops the run before classification, with nothing reported
FatalAborts ==
    /\ (\E w \in 1..NumWorkers : extracted_links[w].tag = "Err") => TreeFails
    /\ TreeFails => pc \in {"fold", "reduce", "failed"} /\ NothingReported
    /\ pc = "failed" =>
          /\ NothingReported
          /\ error # None
          /\ TreeFails => /\ error[1][2] \in Paths
                          /\ tree[error[1][2]].kind \in {"error", "symlink", "badhtml"}

\* C8 as claimed: when a worker hits a fatal error on an entry, the run ends
\* with that error, no grouped entry and no count is emitted although other
\* workers completed their partial results, and the exit status is not one of
\* the broken-link codes.
C8_FatalStatusIsNoBrokenLinkCode ==
    /\ FatalAborts
    /\ pc = "failed" =>
          exit_status \notin {Some(ExitBadLinks), Some(ExitBadAnchors)}

\* C8 as amended: when a worker hits a fatal error on an entry, the run ends
\* with that error, no grouped entry and no count is emitted although other
\* workers completed their partial results, and the exit status is the
\* failure status of main returning the error, whatever the partial results
\* hold; that status is the number of the hard-failure code.
C8_FatalAbortsWithFailureStatus ==
    /\ FatalAborts
    /\ pc = "failed" => exit_status = Some(ExitError)
    /\ pc \notin {"failed", "done"} => exit_status = None

\* C8 witness: a chunk with a broken usage was reduced before the chunk that
\* holds the error ended the run
C8_Witness ==
    /\ pc = "failed"
    /\ TreeFails
    /\ defined_links # {}
    /\ \E h \in DOMAIN used_links : h \notin defined_links
    /\ exit_status = Some(ExitError)

\* the Uses events of the whole input
InputUsesCount == Cardinality({i \in DOMAIN InputLinks : InputLinks[i].kind = "Uses"})

\* the reduction is over
Reduced == pc \in {"sources", "index", "check", "exit", "done"}

\* C9 as claimed: after reduction the files scanned, the documents parsed and
\* the links checked are the totals over the whole input, the links checked
\* being the Uses events, for every partition among the workers; the merged
\* collectors' used_links_count() is the number of Uses events ingested.
C9_CountersAreTotals ==
    /\ Reduced =>
          /\ file_count = Cardinality({p \in Paths : tree[p].kind \in {"html", "other"}})
          /\ documents_count = Cardinality({p \in Paths : tree[p].kind = "html"})
          /\ used_links_len = InputUsesCount
    /\ JoinedOk => used_links_count(MergedChunks) = InputUsesCount

\* no finding of collector c is a usage of href
NoUsages(c, href) ==
    \A ca \in BOOLEAN :
        \A b \in Range(get_broken_links(c, ca)) : b.used_link.href # href

\* what C10 says of collectors[i].ingest(link)
C10_AfterIngest(i, link) ==
    \A h \in CollHrefs :
        /\ IsDefined(collectors[i].links, h) => IsDefined(collectors'[i].links, h)
        /\ link = Defines(h) =>
              IsDefined(collectors'[i].links, h) /\ NoUsages(collectors'[i], h)

\* what C10 says of collectors[i].merge(collectors[j])
C10_AfterMerge(i, j) ==
    \A h \in CollHrefs :
        IsDefined(collectors[i].links, h) \/ IsDefined(collectors[j].links, h) =>
            IsDefined(collectors'[i].links, h) /\ NoUsages(collectors'[i], h)

\* C10: an Href that is Defined in a collector is Defined after every ingest
\* into it and after every merge of another collector into it; an ingested
\* Defines event, and a merged collector in which the Href is Defined, leave
\* the Href Defined with none of the usages accumulated for it.
C10_DefinedIsFinal ==
    [][\A i \in 1..NumCollectors :
          /\ \A k \in DOMAIN coll_pending :
                CollIngest(i, k) => C10_AfterIngest(i, coll_pending[k])
          /\ \A j \in 1..NumCollectors :
                CollMerge(i, j) => C10_AfterMerge(i, j)]_vars

\* C10 witness: a Defines event was ingested for an Href with usages, a
\* collector with usages of a Defined Href was merged in, and the Href is
\* Defined in a collector that counted its usages
C10_Witness ==
    /\ "ingest: Defines discards usages" \in coll_seen
    /\ "merge: Defined kept" \in coll_seen
    /\ \E i \in LiveCollectors :
          \E h \in CollHrefs :
              IsDefined(collectors[i].links, h) /\ used_links_count(collectors[i]) >= 2

C11_AfterIngest(i, link) ==
    DOMAIN collectors'[i].links = DOMAIN collectors[i].links \cup {link.href}
C11_AfterMerge(i, j) ==
    DOMAIN collectors'[i].links = DOMAIN collectors[i].links \cup DOMAIN collectors[j].links

\* C11: the key set of the table only grows: an ingest keeps every key and
\* adds at most the Href of the event, a merge leaves exactly the union of
\* the key sets of the two collectors; the table is a map, so an Href is a
\* key at most once.
C11_KeysOnlyGrow ==
    [][\A i \in 1..NumCollectors :
          /\ \A k \in DOMAIN coll_pending :
                CollIngest(i, k) =>
                    /\ DOMAIN collectors[i].links \subseteq DOMAIN collectors'[i].links
                    /\ C11_AfterIngest(i, coll_pending[k])
          /\ \A j \in 1..NumCollectors :
                CollMerge(i, j) =>
                    /\ DOMAIN collectors[i].links \subseteq DOMAIN collectors'[i].links
                    /\ C11_AfterMerge(i, j)]_vars

\* C11 witness: a merge joined two collectors that each held a key the other
\* did not, and the merged table holds both keys
C11_Witness ==
    /\ "merge: keys of both sides" \in coll_seen
    /\ \E i \in LiveCollectors : DOMAIN collectors[i].links = CollHrefs

\* the usages the events of CollLinks carry
CollUsages == {UsedLinkOf(l) : l \in {x \in CollLinks : x.kind = "Uses"}}

\* how often the usage u occurs in the sequence of usages s
Occurrences(u, s) == Cardinality({i \in DOMAIN s : s[i] = u})

\* how often u occurs among the Uses events of the sequence of events links
UsesOf(u, links) ==
    Cardinality({i \in DOMAIN links : links[i].kind = "Uses" /\ UsedLinkOf(links[i]) = u})

LiveUsedCollectors == {i \in DOMAIN used_collectors : Live(used_collectors[i])}

\* C15: the UsedLinkCollectors hold exactly the Uses events ingested so far,
\* each as often as it was ingested: a usage is in the collector it was
\* ingested into or in the one that collector was merged into, a Defines
\* event adds nothing, nothing is dropped or deduplicated; when all events
\* are ingested and all collectors merged, the one collector holds the
\* multiset of the Uses events of the input, whatever the merge order.
C15_UsedLinksAreTheUsesEvents ==
    pc = "collectors" =>
        /\ \A i \in LiveUsedCollectors :
              Range(used_collectors[i].used_links) \subseteq CollUsages
        /\ \A u \in CollUsages :
              SumOver(LiveUsedCollectors,
                      [i \in LiveUsedCollectors |->
                          Occurrences(u, used_collectors[i].used_links)])
                  + UsesOf(u, coll_pending)
              = UsesOf(u, coll_input)
        /\ CollFinal =>
              \A i \in LiveUsedCollectors : \A u \in CollUsages :
                  Occurrences(u, used_collectors[i].used_links) = UsesOf(u, coll_input)

\* C15 witness: the same Uses event was ingested into two collectors that
\* were merged, a Defines event was ingested too, and the one collector left
\* holds the usage twice
C15_Witness ==
    /\ CollFinal
    /\ "merge: usages concatenated" \in coll_seen
    /\ \E k \in DOMAIN coll_input : coll_input[k].kind = "Defines"
    /\ \E i \in LiveUsedCollectors :
          /\ Len(used_collectors[i].used_links) = 2
          /\ used_collectors[i].used_links[1] = used_collectors[i].used_links[2]

\* the usages stored under the Undefined Hrefs of the table of c
RECURSIVE StoredUsages(_, _)
StoredUsages(links, hrefs) ==
    IF hrefs = <<>> THEN <<>>
    ELSE (IF links[Head(hrefs)] = Defined THEN <<>> ELSE links[Head(hrefs)][2])
         \o StoredUsages(links, Tail(hrefs))

\* C17: fed the same events, and merged alike, a BrokenLinkCollector counts
\* in used_links_count() as many usages as the UsedLinkCollector holds, and
\* the usages it stores under Undefined Hrefs are a sub-multiset of those
\* the UsedLinkCollector holds; at the end the count is the number of Uses
\* events of the input for every partition and merge order.
C17_CountIsLenOfUsedLinks ==
    pc = "collectors" =>
        /\ LiveUsedCollectors = LiveCollectors
        /\ \A i \in LiveCollectors :
              /\ used_links_count(collectors[i]) = Len(used_collectors[i].used_links)
              /\ \A u \in CollUsages :
                    Occurrences(u, StoredUsages(collectors[i].links,
                                                SortedHrefs(DOMAIN collectors[i].links)))
                        <= Occurrences(u, used_collectors[i].used_links)
        /\ CollFinal =>
              \A i \in LiveCollectors :
                  used_links_count(collectors[i])
                      = Cardinality({k \in DOMAIN coll_input : coll_input[k].kind = "Uses"})

\* C17 witness: after merges, the count exceeds the number of findings, which
\* is not zero: usages of a Defined Href are counted and not stored
C17_Witness ==
    /\ CollFinal
    /\ \E i \in LiveCollectors :
          /\ Len(get_broken_links(collectors[i], TRUE)) >= 1
          /\ used_links_count(collectors[i]) > Len(get_broken_links(collectors[i], TRUE))
          /\ used_links_count(collectors[i]) = Len(used_collectors[i].used_links)

\* the elements of S, each once, an element after all those Before it
Enumerate(S, Before(_, _)) ==
    [i \in 1..Cardinality(S) |->
        CHOOSE x \in S : Cardinality({y \in S : Before(y, x)}) = i - 1]

\* source-attributed entries first, then by path
EntryBefore(a, b) == (~a[1] /\ b[1]) \/ (a[1] = b[1] /\ a[2] < b[2])

\* the lines of the entry key: its path, its hard Hrefs, its soft Hrefs
PresentedEntry(key) ==
    LET hard == Enumerate(bad_links_and_anchors[key][1], HrefLess)
        soft == Enumerate(bad_links_and_anchors[key][2], HrefLess)
    IN << <<"file", key[2]>> >>
       \o [i \in 1..Len(hard) |-> <<"error: bad link", hard[i]>>]
       \o [i \in 1..Len(soft) |-> <<"warning: bad anchor", soft[i]>>]

RECURSIVE PresentedEntries(_)
PresentedEntries(keys) ==
    IF keys = <<>> THEN <<>>
    ELSE PresentedEntry(Head(keys)) \o PresentedEntries(Tail(keys))

\* the lines printed between the "Checking .. links" line and the counts
ReportPart ==
    LET first == CHOOSE i \in DOMAIN out : out[i][1] = "Checking links from files (documents)"
        last == CHOOSE i \in DOMAIN out : out[i][1] = "Found bad links"
    IN SubSeq(out, first + 1, last - 1)

\* C12: the report presents every grouped entry once, the entries attributed
\* to a source document before the entries attributed to a raw output file
\* and by path within each group; within an entry the hard Hrefs, then the
\* soft Hrefs, each in Href order and without repeats.
C12_ReportOrder ==
    Reported =>
        ReportPart = PresentedEntries(Enumerate(DOMAIN bad_links_and_anchors, EntryBefore))

\* C12 witness: the report presents an entry of a source document before an
\* entry of a raw output file of smaller path
C12_Witness ==
    /\ pc = "done"
    /\ \E a \in DOMAIN bad_links_and_anchors : \E b \in DOMAIN bad_links_and_anchors :
          /\ ~a[1] /\ b[1] /\ a[2] > b[2]
          /\ \E i \in DOMAIN ReportPart : \E j \in DOMAIN ReportPart :
                i < j /\ ReportPart[i] = <<"file", a[2]>> /\ ReportPart[j] = <<"file", b[2]>>

TreeSymlinks == {p \in Paths : tree[p].kind = "symlink"}
SourceSymlinks ==
    IF sources_path = None THEN {}
    ELSE {p \in SourcePaths : sources_path[1][p].kind = "symlink"}

\* a symlink under the scan root: the run never classifies or reports, and
\* the symlink error names a symlink of the tree
ScanRootSymlinkAborts ==
    /\ TreeSymlinks # {} => pc \in {"fold", "reduce", "failed"} /\ NothingReported
    /\ \A w \in 1..NumWorkers :
          /\ extracted_links[w].tag = "Err"
          /\ extracted_links[w].error[1] = "Found unsupported symlink at"
          => extracted_links[w].error[2] \in TreeSymlinks
    /\ error # None /\ error[1][1] = "Found unsupported symlink at"
          => error[1][2] \in TreeSymlinks

\* C13 as claimed: a symlink met in the traversal of the scan root, or of the
\* source tree when one is given, aborts the run with an error that names the
\* symlink's path, and no report is emitted.
C13_SymlinkAborts ==
    /\ ScanRootSymlinkAborts
    /\ SourceSymlinks # {} =>
          /\ pc \notin {"check", "exit", "done"}
          /\ NothingReported
          /\ pc = "failed" /\ ~TreeFails =>
                error[1][1] = "Found unsupported symlink at" /\ error[1][2] \in SourceSymlinks

\* the classification pass has judged nothing yet
NothingJudged ==
    /\ check_pos = <<1, 0>>
    /\ findings = <<>>
    /\ bad_links_count = 0
    /\ bad_anchors_count = 0
    /\ bad_links_and_anchors = EmptyMap

\* C14: nothing is judged before the classification pass, and the pass runs
\* only when every entry has been folded by a worker and every chunk has been
\* reduced into the aggregate: then defined_links holds the Href of every
\* Defines event of the input and used_links every Uses event.
C14_ClassificationAfterReduction ==
    /\ pc \in {"fold", "reduce", "sources", "index"} => NothingJudged
    /\ pc \in {"check", "exit", "done"} =>
          /\ pending = {}
          /\ reduce_pos = NumWorkers + 1
          /\ \A w \in 1..NumWorkers : extracted_links[w] = Moved
          /\ defined_links = InputDefined
          /\ DOMAIN used_links = InputUsed
          /\ \A h \in InputUsed : BagOf(used_links[h]) = BagOf(InputUsages(h))

\* C14 witness: the pass is judging the usages of a broken Href, having
\* passed a used Href that is Defined
C14_Witness ==
    /\ pc = "check"
    /\ check_pos[2] > 0
    /\ \E i \in 1..(check_pos[1] - 1) : UsedHrefs[i] \in defined_links
    /\ Cardinality({p \in Paths : tree[p].kind = "html"}) = 2

\* the index holds every (fingerprint, source document) pair of the source
\* tree, each source once under each of its fingerprints, and nothing else
IndexComplete ==
    /\ DOMAIN paragraps_to_sourcefile = {f \in Fingerprints : SourcesOf(f) # {}}
    /\ \A f \in DOMAIN paragraps_to_sourcefile :
          /\ Range(paragraps_to_sourcefile[f]) = SourcesOf(f)
          /\ Len(paragraps_to_sourcefile[f]) = Cardinality(SourcesOf(f))

\* C16: the index is read only by the attribution pass, and whenever that
\* pass can run the index holds every (fingerprint, source document) pair of
\* every source document, all the documents that share a fingerprint under
\* that fingerprint; it is written only before the pass, so it is the same in
\* every state of the pass and no read meets a write.
C16_IndexCompleteBeforeLookup ==
    /\ pc \in {"check", "exit", "done"} => IndexComplete
    /\ pc \in {"fold", "reduce", "sources", "index"} => findings = <<>>
    /\ pc # "index" /\ pc # "failed" /\ ~IndexComplete => paragraps_to_sourcefile = EmptyMap

\* C16 witness: the attribution pass has looked up a fingerprint that two
\* source documents share, and found both
C16_Witness ==
    /\ pc = "check"
    /\ \E f \in DOMAIN paragraps_to_sourcefile : Len(paragraps_to_sourcefile[f]) = 2
    /\ \E i \in DOMAIN findings :
          /\ findings[i].used_link.paragraph # None
          /\ findings[i].keys = {<<FALSE, p>> : p \in SourcePaths}

\* the (Href, hard_404, usage) triples the driver has attributed
DriverTriples ==
    [i \in DOMAIN findings |->
        [hard_404 |-> findings[i].hard_404, used_link |-> findings[i].used_link]]

\* one BrokenLinkCollector that ingested the events of the scanned tree
InputCollector == IngestAll(BrokenLinkCollector_new, InputLinks)

\* C18: when the driver has classified the whole aggregate, the triples
\* (Href, hard_404, usage) it attributed are, with multiplicity, the findings
\* get_broken_links returns for a BrokenLinkCollector that ingested the same
\* events, with the same check_anchors.
C18_DriverEqualsCollector ==
    Reported =>
        BagOf(DriverTriples) = BagOf(get_broken_links(InputCollector, check_anchors))

\* C18 witness: with anchor checking, driver and collector both gave a soft
\* and a hard finding, and neither for a used Href that is defined
C18_Witness ==
    /\ pc = "exit"
    /\ check_anchors
    /\ Len(get_broken_links(InputCollector, check_anchors)) = 2
    /\ \E i \in DOMAIN DriverTriples : DriverTriples[i].hard_404
    /\ \E i \in DOMAIN DriverTriples : ~DriverTriples[i].hard_404

\* the report has a line of the kind what
Printed(what) == \E i \in DOMAIN out : out[i][1] = what

\* C19: after a run without fatal error the report and the exit status
\* agree: the Href of every broken usage is in the hard or the soft set of a
\* grouped entry; the status is the hard-failure code exactly when some entry
\* has a hard Href, the anchor-failure code exactly when no entry has a hard
\* Href and some entry has a soft one, and 0 exactly when there is no entry;
\* without anchor checking every soft set is empty and the anchor-failure
\* code is not returned.
C19_ReportAgreesWithExit ==
    pc = "done" =>
        /\ \A i \in DOMAIN findings :
              findings[i].used_link.href \in ReportedHard \cup ReportedSoft
        /\ InputBroken \subseteq ReportedHard \cup ReportedSoft
        /\ exit_status = Some(ExitBadLinks) <=> ReportedHard # {}
        /\ exit_status = Some(ExitBadAnchors) <=> (ReportedHard = {} /\ ReportedSoft # {})
        /\ exit_status = Some(ExitOk) <=> DOMAIN bad_links_and_anchors = {}
        /\ Printed("error: bad link") <=> ReportedHard # {}
        /\ Printed("warning: bad anchor") <=> ReportedSoft # {}
        /\ ~check_anchors => ReportedSoft = {} /\ exit_status # Some(ExitBadAnchors)

\* C19 witness: without anchor checking, a broken anchor of an existing page
\* is reported as a bad link and the status is the hard-failure code
C19_Witness ==
    /\ pc = "done"
    /\ ~check_anchors
    /\ \E h \in ReportedHard : h[2] # 0 /\ without_anchor(h) \in defined_links
    /\ Printed("error: bad link")
    /\ exit_status = Some(ExitBadLinks)

\* a finding for href, hard or not, is one the classification rule allows:
\* soft only with an anchor and a path-only Href in defined, hard always
\* when href has no anchor
SoftOnlyForAnchor(href, hard_404, defined) ==
    /\ ~hard_404 => /\ href[2] # 0
                    /\ without_anchor(href) # href
                    /\ without_anchor(href) \in defined
    /\ href[2] = 0 => hard_404 /\ without_anchor(href) = href

\* C20: a soft finding is only produced for an Href that has an anchor and
\* whose path-only Href is another key, a Defined one; an Undefined Href
\* without anchor only yields hard findings; in the driver, and in
\* get_broken_links for both values of check_anchors.
C20_SoftOnlyForAnchorOfDefined ==
    /\ \A i \in DOMAIN findings :
          /\ SoftOnlyForAnchor(findings[i].used_link.href, findings[i].hard_404, InputDefined)
          /\ ~findings[i].hard_404 => check_anchors
    /\ JoinedOk =>
          \A ca \in BOOLEAN :
              \A b \in Range(get_broken_links(MergedChunks, ca)) :
                  /\ SoftOnlyForAnchor(b.used_link.href, b.hard_404,
                                       {h \in DOMAIN MergedChunks.links :
                                           MergedChunks.links[h] = Defined})
                  /\ ~b.hard_404 => ca

\* C20 witness: with anchor checking, the usage of a missing anchor of an
\* existing page gave a soft finding and the usage of a missing page without
\* anchor a hard one
C20_Witness ==
    /\ pc = "done"
    /\ check_anchors
    /\ \E i \in DOMAIN findings :
          /\ ~findings[i].hard_404
          /\ findings[i].used_link.href[2] # 0
          /\ without_anchor(findings[i].used_link.href) \in defined_links
    /\ \E i \in DOMAIN findings :
          findings[i].hard_404 /\ findings[i].used_link.href[2] = 0

====
